---- MODULE Spec2Model ----
(***************************************************************************)
(* The Llama3.1 chat page, examples/gui/pages/llama3_1.py.                 *)
(*                                                                         *)
(* The page is a script that the UI framework runs from top to bottom on   *)
(* every interaction of the user (a "rerun").  What survives a rerun is    *)
(* st.session_state, a dictionary with the keys "model" and "messages".    *)
(* A rerun is modelled by four steps that follow the script: Rerun (lines  *)
(* 81-161, the widgets, the Start button, the sidebar, the history and the *)
(* chat input), UserMessageStep (lines 162-178, the RAG branch),           *)
(* RespondStep (lines 180-191, the streamed response) and AppendStep       *)
(* (lines 193-196).  A call into a library may raise; the exception is     *)
(* unhandled and ends the rerun where it is raised.                        *)
(***************************************************************************)
EXTENDS Integers, Sequences, FiniteSets, TLC

VARIABLES
    session_state,  \* st.session_state: a function on a subset of {"model", "messages"}
    pc,             \* where the running script is: idle | user_message | respond | append
    button_shown,   \* the Start button was rendered by the latest rerun (line 106)
    chat_input,     \* the chat input as the latest rerun rendered it: absent | disabled | enabled
    start_pressed,  \* the value button_state.button(...) returned in the latest rerun
    sidebar,        \* rag, system_prompt and (under rag) n_result of the latest rerun
    displayed,      \* what the history loop of the latest rerun rendered (lines 149-151)
    display_reached,\* the latest rerun reached the history loop
    prompt,         \* the value st.chat_input returned in the latest rerun, or None
    messages,       \* the local list `messages` of the latest rerun
    prompt_string,  \* the local prompt_string of the latest rerun
    response,       \* the local response of the latest rerun, or None
    raised,         \* the call whose exception ended the latest rerun, or "none"
    calls,          \* the library calls the current turn made, in order
    last_start      \* history: <<m>> for the model the latest successful start_llama3 returned

vars == <<session_state, pc, button_shown, chat_input, start_pressed, sidebar,
          displayed, display_reached, prompt, messages, prompt_string, response,
          raised, calls, last_start>>

\* The number of user turns a session is followed for.
MaxTurns == 2

\* Python's None, for a local that holds no value.
None == "None"

\* The avatar glyphs of the user's and of the assistant's chat messages.
USER_AVATAR == "speech-balloon"
ASSISTANT_AVATAR == "llama"

(***************************************************************************)
(* Inputs                                                                  *)
(***************************************************************************)

\* The choices of the Encoding selectbox.
Encodings == {"q4_k", "q4_0", "q6_k"}

\* The weight file of each encoding.
model_name ==
    [float32  |-> "llama-3.1-8b-instruct-f32.gguf",
     bfloat16 |-> "llama-3.1-8b-instruct-bf16.gguf",
     q4_0     |-> "llama-3.1-8b-instruct-q4_0.gguf",
     q4_k     |-> "llama-3.1-8b-instruct-q4_k_m.gguf",
     q6_k     |-> "llama-3.1-8b-instruct-q6_k.gguf"]

\* Values of the two number inputs: their defaults.
MaxLengthInputs == {12000}
MaxNewTokensInputs == {6000}

\* The widgets' values in a rerun that does not read them.
SelectedEncoding == "q4_k"
SelectedMaxLength == 12000
SelectedMaxNewTokens == 6000

\* The range and the default of the "Number of Top Embedding Search Results" slider.
SliderMin == 1
SliderMax == 7
SliderDefault == 5

\* The slider positions followed: the ends of its range and its default.
SliderValues == {n \in SliderMin..SliderMax : n \in {SliderMin, SliderDefault, SliderMax}}

\* The default text of the system prompt box without RAG.
DEFAULT_SYSTEM_PROMPT == "You are a helpful coding assistant named MAX Llama3."

\* shared.RAG_SYSTEM_PROMPT, the default text of the system prompt box under RAG.
RAG_SYSTEM_PROMPT == "RAG_SYSTEM_PROMPT"

\* shared.RAG_PROMPT, the template of the user message under RAG: the text
\* before the query, between the query and the data, and after the data.
RAG_PROMPT == [head |-> "RAG_PROMPT{query=", mid |-> ";data=", tail |-> "}"]

\* What the user may have typed into the system prompt box.
SystemPrompts(rag) ==
    {IF rag THEN RAG_SYSTEM_PROMPT ELSE DEFAULT_SYSTEM_PROMPT, "Answer in French."}

\* The sidebar's RAG block (lines 116-142): the locals it binds.
Sidebars ==
    [rag : {FALSE}, system_prompt : SystemPrompts(FALSE)]
    \cup [rag : {TRUE}, system_prompt : SystemPrompts(TRUE),
          n_result : SliderValues]

\* What the user may type into the chat input.
Prompts == {"hi", "why?"}

\* What the model may answer.
Responses == {"hello", "because"}

\* The documents of the indexed collection, nearest first, and their files.
Documents == <<"doc1", "doc2">>
FileNames == <<"a.txt", "b.md">>

(***************************************************************************)
(* Session state                                                           *)
(***************************************************************************)

\* A fresh session: st.session_state holds no key.
EmptyState == [k \in {} |-> None]

\* d[k] = v of a Python dictionary.
SetItem(d, k, v) == [x \in (DOMAIN d) \cup {k} |-> IF x = k THEN v ELSE d[x]]

\* The stored transcript, empty while the key is absent.
Transcript(ss) == IF "messages" \in DOMAIN ss THEN ss["messages"] ELSE <<>>

(***************************************************************************)
(* The functions of the page                                               *)
(***************************************************************************)

\* hf_streamlit_download("modularai/llama-3.1", model_name[encoding]): the weights' path.
hf_streamlit_download(encoding) == model_name[encoding]

\* start_llama3: the Llama3 built from the InferenceConfig of its arguments
\* (st.cache_resource returns the same object for the same arguments).
start_llama3(weight_path, quantization, max_length, max_new_tokens) ==
    [weight_path |-> weight_path, quantization_encoding |-> quantization,
     max_length |-> max_length, max_new_tokens |-> max_new_tokens]

\* A faulty Start branch: the model is assigned whether or not the button was pressed.
StartButton_EveryRerun(ss, pressed, model) == SetItem(ss, "model", model)

\* if button_state.button("Start Llama3"): st.session_state["model"] = start_llama3(...)
StartButton(ss, pressed, model) ==
    IF pressed THEN SetItem(ss, "model", model) ELSE ss

\* A faulty initialisation: the history is reset on every rerun.
InitChatHistory_Always(ss) == SetItem(ss, "messages", <<>>)

\* if "messages" not in st.session_state: st.session_state.messages = []
InitChatHistory(ss) ==
    IF "messages" \notin DOMAIN ss THEN SetItem(ss, "messages", <<>>) ELSE ss

\* A faulty history loop: the newest record is rendered first.
DisplayHistory_Reversed(ss) ==
    LET h == ss["messages"]
    IN  [i \in 1..Len(h) |->
            [role |-> h[Len(h) + 1 - i].role, avatar |-> h[Len(h) + 1 - i].avatar,
             content |-> h[Len(h) + 1 - i].content]]

\* for message in st.session_state.messages: st.chat_message(role, avatar), st.markdown(content)
DisplayHistory(ss) ==
    LET h == ss["messages"]
    IN  [i \in 1..Len(h) |->
            [role |-> h[i].role, avatar |-> h[i].avatar, content |-> h[i].content]]

\* A faulty flag: the chat input is never disabled.
DisableChat_Never(ss) == FALSE

\* disable_chat = True if "model" not in st.session_state else False
DisableChat(ss) == IF "model" \notin DOMAIN ss THEN TRUE ELSE FALSE

\* st.chat_input(..., disabled=disable_chat): the submitted text, None from a
\* disabled input or when nothing was submitted.
ChatInput(submitted, disable_chat) == IF disable_chat THEN None ELSE submitted

\* A faulty message list: the system message is left out.
InitialMessages_NoSystem(system_prompt, ss) ==
    [i \in 1..Len(ss["messages"]) |->
        [role |-> ss["messages"][i].role, content |-> ss["messages"][i].content]]

\* messages = [system] + [{role, content} for m in st.session_state.messages]
InitialMessages(system_prompt, ss) ==
    <<[role |-> "system", content |-> system_prompt]>>
    \o [i \in 1..Len(ss["messages"]) |->
           [role |-> ss["messages"][i].role, content |-> ss["messages"][i].content]]

\* "\n\n".join(doc)
RECURSIVE Join(_)
Join(doc) ==
    IF Len(doc) = 0 THEN ""
    ELSE IF Len(doc) = 1 THEN doc[1]
    ELSE doc[1] \o "\n\n" \o Join(Tail(doc))

\* What collection.query(query_embedding, n_results=n) may return for the one
\* query: no documents or no metadatas at all, or the k <= n nearest documents.
QueryReturns(n) ==
    {[documents_none |-> TRUE, metadatas_none |-> b, documents |-> <<>>, metadatas |-> <<>>]
        : b \in BOOLEAN}
    \cup {[documents_none |-> FALSE, metadatas_none |-> FALSE,
           documents |-> <<SubSeq(Documents, 1, k)>>,
           metadatas |-> <<SubSeq(FileNames, 1, k)>>]
            : k \in 0..(IF n < Len(Documents) THEN n ELSE Len(Documents))}

\* The ret for which metadata[0] raises IndexError (line 170).
DataRaises(ret) ==
    /\ ~ret.documents_none /\ ~ret.metadatas_none
    /\ \E i \in 1..Len(ret.metadatas) : Len(ret.metadatas[i]) = 0

\* data = [("\n\n".join(doc), metadata[0]["file_name"]) for doc, metadata in zip(...)]
RetrievedData(ret) ==
    IF ret.documents_none \/ ret.metadatas_none THEN <<>>
    ELSE [i \in 1..(IF Len(ret.documents) < Len(ret.metadatas)
                    THEN Len(ret.documents) ELSE Len(ret.metadatas)) |->
            <<Join(ret.documents[i]), ret.metadatas[i][1]>>]

\* str(data): the list of pairs as format() prints it.
RECURSIVE DataItems(_)
DataItems(data) ==
    IF Len(data) = 0 THEN ""
    ELSE "('" \o data[1][1] \o "', '" \o data[1][2] \o "')"
         \o (IF Len(data) = 1 THEN "" ELSE ", ") \o DataItems(Tail(data))

DataStr(data) == "[" \o DataItems(data) \o "]"

\* RAG_PROMPT.format(query=prompt, data=data)
FormatRagPrompt(query, data) ==
    RAG_PROMPT.head \o query \o RAG_PROMPT.mid \o DataStr(data) \o RAG_PROMPT.tail

\* A faulty RAG branch: the typed text is sent also under rag.
UserMessage_NeverRag(rag, user_prompt, data) ==
    [role |-> "user", content |-> user_prompt]

\* The user message of the turn (lines 171-178).
UserMessage(rag, user_prompt, data) ==
    IF rag THEN [role |-> "user", content |-> FormatRagPrompt(user_prompt, data)]
    ELSE [role |-> "user", content |-> user_prompt]

RECURSIVE PromptBlocks(_)
\* The two += of the loop body, for each message in order.
PromptBlocks(msgs) ==
    IF Len(msgs) = 0 THEN <<>>
    ELSE <<"<|start_header_id|>" \o msgs[1].role \o "<|end_header_id|>\n\n",
           msgs[1].content \o "<|eot_id|>\n">>
         \o PromptBlocks(Tail(msgs))

\* A faulty prompt: the open assistant header is missing.
messages_to_llama3_prompt_NoOpenHeader(msgs) ==
    <<"<|begin_of_text|>">> \o PromptBlocks(msgs)

\* messages_to_llama3_prompt: the string as the sequence of the pieces appended to it.
messages_to_llama3_prompt(msgs) ==
    <<"<|begin_of_text|>">> \o PromptBlocks(msgs)
    \o <<"<|start_header_id|>assistant<|end_header_id|>">>

\* A faulty append: the user record stores the text sent to the model.
AppendedMessages_StoresSentText(ss, user_prompt, resp) ==
    SetItem(ss, "messages",
            ss["messages"]
            \o <<[role |-> "user", avatar |-> USER_AVATAR,
                  content |-> messages[Len(messages)].content],
                 [role |-> "assistant", avatar |-> ASSISTANT_AVATAR, content |-> resp]>>)

\* A faulty append: the assistant record is stored before the user record.
AppendedMessages_AssistantFirst(ss, user_prompt, resp) ==
    SetItem(ss, "messages",
            ss["messages"]
            \o <<[role |-> "assistant", avatar |-> ASSISTANT_AVATAR, content |-> resp],
                 [role |-> "user", avatar |-> USER_AVATAR, content |-> user_prompt]>>)

\* st.session_state.messages += [user record, assistant record]
AppendedMessages(ss, user_prompt, resp) ==
    SetItem(ss, "messages",
            ss["messages"]
            \o <<[role |-> "user", avatar |-> USER_AVATAR, content |-> user_prompt],
                 [role |-> "assistant", avatar |-> ASSISTANT_AVATAR, content |-> resp]>>)

(***************************************************************************)
(* The rerun                                                               *)
(***************************************************************************)

Init ==
    /\ session_state = EmptyState
    /\ pc = "idle"
    /\ button_shown = FALSE
    /\ chat_input = "absent"
    /\ start_pressed = FALSE
    /\ sidebar = [rag |-> FALSE, system_prompt |-> DEFAULT_SYSTEM_PROMPT]
    /\ displayed = <<>>
    /\ display_reached = FALSE
    /\ prompt = None
    /\ messages = <<>>
    /\ prompt_string = <<>>
    /\ response = None
    /\ raised = "none"
    /\ calls = <<>>
    /\ last_start = <<>>

\* The calls of lines 81-142 that may raise, in the order of the script.
RerunFaults == {"none", "hf_streamlit_download", "start_llama3", "load_embed_docs"}

\* Lines 81-161: the script from its first widget to the chat input, run on an
\* interaction of the user.  pressed: the user clicked "Start Llama3";
\* submitted: the text the user sent from the chat input, or None; side: the
\* sidebar's RAG block; fault: the call that raises in this rerun.
Rerun(encoding, max_length, max_new_tokens, pressed, side, submitted, fault) ==
    /\ pc = "idle"
    /\ pressed => button_shown
    /\ submitted # None =>
          /\ chat_input = "enabled"
          /\ ~pressed
          /\ Len(Transcript(session_state)) < 2 * MaxTurns
    /\ fault = "start_llama3" => pressed
    /\ fault = "load_embed_docs" => side.rag
    /\ LET weights == hf_streamlit_download(encoding)
           clicked == pressed /\ fault # "hf_streamlit_download"
           started == clicked /\ fault # "start_llama3"
           model   == start_llama3(weights, encoding, max_length, max_new_tokens)
           s1      == IF fault \in {"hf_streamlit_download", "start_llama3"}
                      THEN session_state
                      ELSE StartButton(session_state, pressed, model)
           s2      == InitChatHistory(s1)
           disable_chat == DisableChat(s2)
           typed   == ChatInput(submitted, disable_chat)
       IN  /\ start_pressed' = clicked
           /\ button_shown' = (fault # "hf_streamlit_download")
           /\ last_start' = IF started THEN <<model>> ELSE last_start
           /\ raised' = fault
           /\ calls' = <<>>
           /\ prompt_string' = <<>>
           /\ response' = None
           /\ IF fault # "none"
              THEN /\ session_state' = s1
                   /\ sidebar' = sidebar
                   /\ chat_input' = "absent"
                   /\ displayed' = <<>>
                   /\ display_reached' = FALSE
                   /\ prompt' = None
                   /\ messages' = <<>>
                   /\ pc' = "idle"
              ELSE /\ session_state' = s2
                   /\ sidebar' = side
                   /\ displayed' = DisplayHistory(s2)
                   /\ display_reached' = TRUE
                   /\ chat_input' = IF disable_chat THEN "disabled" ELSE "enabled"
                   /\ prompt' = typed
                   /\ IF typed # None
                      THEN /\ messages' = InitialMessages(side.system_prompt, s2)
                           /\ pc' = "user_message"
                      ELSE /\ messages' = <<>>
                           /\ pc' = "idle"

\* The user presses "Start Llama3" (line 106 returns True in the rerun).
StartPress ==
    \E encoding \in Encodings, max_length \in MaxLengthInputs,
       max_new_tokens \in MaxNewTokensInputs, side \in Sidebars, fault \in RerunFaults :
        Rerun(encoding, max_length, max_new_tokens, TRUE, side, None, fault)

\* The page is loaded, or the user changes a sidebar widget.  The selectbox and
\* the number inputs are read by the Start branch alone, so a rerun that does
\* not press Start runs the same for each of their values.
WidgetChange ==
    \E side \in Sidebars, fault \in RerunFaults :
        Rerun(SelectedEncoding, SelectedMaxLength, SelectedMaxNewTokens,
              FALSE, side, None, fault)

\* The user sends a text from the chat input.
ChatSubmit ==
    \E side \in Sidebars, submitted \in Prompts, fault \in RerunFaults :
        Rerun(SelectedEncoding, SelectedMaxLength, SelectedMaxNewTokens,
              FALSE, side, submitted, fault)

\* What lines 163-164 may do: embed raises, query raises, or query returns ret.
RagOutcomes(n) ==
    {[fault |-> f, ret |-> CHOOSE r \in QueryReturns(n) : TRUE] : f \in {"embed", "query"}}
    \cup {[fault |-> "none", ret |-> r] : r \in QueryReturns(n)}

\* Lines 162-178 on the script's locals: the user message of the turn,
\* retrieval-augmented under rag.
UserMessageLocals ==
    /\ pc = "user_message"
    /\ IF sidebar.rag
       THEN \E out \in RagOutcomes(sidebar.n_result) :
              LET embed == [op |-> "embed", text |-> prompt, ok |-> out.fault # "embed"]
                  query == [op |-> "query", n_results |-> sidebar.n_result,
                            ok |-> out.fault # "query", result |-> out.ret]
              IN  /\ calls' = IF out.fault = "embed" THEN <<embed>> ELSE <<embed, query>>
                  /\ IF out.fault # "none"
                     THEN /\ raised' = out.fault
                          /\ pc' = "idle"
                          /\ messages' = messages
                     ELSE IF DataRaises(out.ret)
                     THEN /\ raised' = "IndexError"
                          /\ pc' = "idle"
                          /\ messages' = messages
                     ELSE /\ raised' = raised
                          /\ pc' = "respond"
                          /\ messages' = Append(messages,
                                UserMessage(TRUE, prompt, RetrievedData(out.ret)))
       ELSE /\ calls' = calls
            /\ raised' = raised
            /\ pc' = "respond"
            /\ messages' = Append(messages, UserMessage(FALSE, prompt, <<>>))
    /\ UNCHANGED <<button_shown, chat_input, start_pressed, sidebar, displayed,
                   display_reached, prompt, prompt_string, response, last_start>>

\* A faulty step: the user record is stored before the model is called.
UserMessageStep_AppendsUserRecord ==
    /\ UserMessageLocals
    /\ session_state' = SetItem(session_state, "messages",
            Append(session_state["messages"],
                   [role |-> "user", avatar |-> USER_AVATAR, content |-> prompt]))

\* Lines 162-178: they leave st.session_state alone.
UserMessageStep ==
    /\ UserMessageLocals
    /\ UNCHANGED session_state

\* A faulty step: an exception of stream_output is caught and the turn goes on
\* with an empty response.
RespondStep_CatchesError ==
    /\ pc = "respond"
    /\ "model" \in DOMAIN session_state
    /\ prompt_string' = messages_to_llama3_prompt(messages)
    /\ \E r \in Responses \cup {None} :
          /\ calls' = Append(calls,
                [op |-> "stream_output", model |-> session_state["model"],
                 prompt |-> prompt_string', ok |-> r # None, result |-> r])
          /\ response' = IF r = None THEN "" ELSE r
    /\ raised' = raised
    /\ pc' = "append"
    /\ UNCHANGED <<session_state, button_shown, chat_input, start_pressed, sidebar,
                   displayed, display_reached, prompt, messages, last_start>>

\* Lines 180-191: the prompt string, and the streamed response driven to its end.
RespondStep ==
    /\ pc = "respond"
    /\ prompt_string' = messages_to_llama3_prompt(messages)
    /\ IF "model" \notin DOMAIN session_state
       THEN /\ raised' = "KeyError"
            /\ calls' = calls
            /\ response' = response
            /\ pc' = "idle"
       ELSE \E r \in Responses \cup {None} :
              /\ calls' = Append(calls,
                    [op |-> "stream_output", model |-> session_state["model"],
                     prompt |-> prompt_string', ok |-> r # None, result |-> r])
              /\ IF r = None
                 THEN /\ raised' = "stream_output"
                      /\ response' = response
                      /\ pc' = "idle"
                 ELSE /\ raised' = raised
                      /\ response' = r
                      /\ pc' = "append"
    /\ UNCHANGED <<session_state, button_shown, chat_input, start_pressed, sidebar,
                   displayed, display_reached, prompt, messages, last_start>>

\* Lines 193-196: the turn's two records are appended to the transcript.
AppendStep ==
    /\ pc = "append"
    /\ session_state' = AppendedMessages(session_state, prompt, response)
    /\ pc' = "idle"
    /\ UNCHANGED <<button_shown, chat_input, start_pressed, sidebar, displayed,
                   display_reached, prompt, messages, prompt_string, response,
                   raised, calls, last_start>>

Next == StartPress \/ WidgetChange \/ ChatSubmit \/ UserMessageStep \/ RespondStep \/ AppendStep

Spec == Init /\ [][Next]_vars

(***************************************************************************)
(* Properties                                                              *)
(***************************************************************************)

HasModel == "model" \in DOMAIN session_state

IsPrefix(s, t) == Len(s) <= Len(t) /\ SubSeq(t, 1, Len(s)) = s

\* The calls to `op` the current turn made.
CallsOf(op) == {i \in 1..Len(calls) : calls[i].op = op}

\* A user turn ran to the end of the script in the latest rerun.
TurnCompleted == pc = "idle" /\ prompt # None /\ raised = "none"

\* The transcript as it was when the latest rerun started its turn.
TurnHistory ==
    LET T == Transcript(session_state)
    IN  IF TurnCompleted /\ Len(T) >= 2 THEN SubSeq(T, 1, Len(T) - 2) ELSE T

\* C1: the chat input is rendered disabled exactly when session state holds no
\* model; while no Start press has returned a model, no prompt is taken, no
\* prompt is sent to the model and the transcript stays empty; and a Start
\* press whose start_llama3 raises while no model is held leaves no model and
\* no enabled chat input.
C1_ChatDisabledUntilStarted ==
    /\ [](/\ chat_input = "disabled" => ~HasModel
          /\ chat_input = "enabled" => HasModel
          /\ (prompt # None \/ pc # "idle") => (HasModel /\ last_start # <<>>)
          /\ ~HasModel =>
                /\ last_start = <<>>
                /\ Transcript(session_state) = <<>>
                /\ CallsOf("stream_output") = {})
    /\ [][(pc = "idle" /\ start_pressed' /\ raised' = "start_llama3" /\ ~HasModel)
            => (~HasModel' /\ chat_input' # "enabled")]_vars

\* A Start press raised in a session without a model: the chat input is not usable.
C1_Witness ==
    /\ start_pressed /\ raised = "start_llama3"
    /\ ~HasModel /\ chat_input = "absent" /\ prompt = None

\* C2: the transcript only grows at its end: every step leaves the earlier
\* transcript a prefix of the later one, a rerun that takes no prompt leaves it
\* unchanged, and the key is set to the empty list only when it is absent.
C2_TranscriptAppendOnly ==
    [][/\ IsPrefix(Transcript(session_state), Transcript(session_state'))
       /\ (pc = "idle" /\ prompt' = None)
            => Transcript(session_state') = Transcript(session_state)
       /\ "messages" \in DOMAIN session_state => "messages" \in DOMAIN session_state'
       /\ ("messages" \notin DOMAIN session_state /\ "messages" \in DOMAIN session_state')
            => session_state'["messages"] = <<>>]_vars

\* Two turns are stored and a later rerun without a prompt has run.
C2_Witness ==
    /\ Len(Transcript(session_state)) = 4
    /\ pc = "idle" /\ prompt = None /\ display_reached

\* C3: the step that completes a user turn appends exactly two records: a user
\* record with the text the user typed (also under RAG), then an assistant
\* record with the response stream_output returned in that turn.
C3_TurnAppendsUserThenAssistant ==
    [][(pc # "idle" /\ pc' = "idle" /\ raised' = "none") =>
        LET T == Transcript(session_state)
            U == Transcript(session_state')
            n == Len(T)
            last == calls[Len(calls)]
        IN  /\ Len(U) = n + 2
            /\ SubSeq(U, 1, n) = T
            /\ U[n + 1].role = "user" /\ U[n + 1].content = prompt
            /\ U[n + 2].role = "assistant"
            /\ calls # <<>> /\ last.op = "stream_output" /\ last.ok
            /\ U[n + 2].content = last.result]_vars

\* A turn under RAG completed: the stored user text is the typed prompt, not
\* the augmented text the model was sent.
C3_Witness ==
    /\ TurnCompleted /\ sidebar.rag
    /\ LET T == Transcript(session_state)
       IN  /\ Len(T) = 4
           /\ T[3].content = prompt /\ T[4].content = response
           /\ messages[Len(messages)].content # prompt

\* Every stored record has a role among system, user and assistant, a content
\* and an avatar.
RecordsWellFormed ==
    \A i \in 1..Len(Transcript(session_state)) :
        LET m == Transcript(session_state)[i]
        IN  /\ DOMAIN m = {"role", "content", "avatar"}
            /\ m.role \in {"system", "user", "assistant"}
            /\ m.avatar \in {USER_AVATAR, ASSISTANT_AVATAR}
            /\ m.content \in Prompts \cup Responses

C5_FailedCallLeavesSessionState ==
    /\ []((calls # <<>> /\ ~calls[Len(calls)].ok) =>
            /\ pc = "idle"
            /\ raised = calls[Len(calls)].op
            /\ HasModel
            /\ Transcript(session_state) = displayed)
    /\ [](\A i, j \in 1..Len(calls) : calls[i].op = calls[j].op => i = j)
    /\ [][(prompt' # None /\ pc # "append") => session_state' = session_state]_vars

\* The streamed response raised in the second turn of a session under RAG.
C5_Witness ==
    /\ raised = "stream_output" /\ pc = "idle"
    /\ Len(calls) = 3 /\ ~calls[3].ok
    /\ Len(Transcript(session_state)) = 2

\* C6: the append is reached only after stream_output has returned the
\* response, the transcript changes only in the step that ends the rerun of
\* the turn, and no other rerun starts while a turn is running.
C6_AppendAfterResponseInSameRerun ==
    /\ [](pc = "append" =>
            /\ response \in Responses
            /\ calls # <<>>
            /\ calls[Len(calls)].op = "stream_output"
            /\ calls[Len(calls)].ok
            /\ calls[Len(calls)].result = response)
    /\ [][Transcript(session_state') # Transcript(session_state)
            => (pc = "append" /\ pc' = "idle")]_vars
    /\ [][pc # "idle" =>
            /\ prompt' = prompt
            /\ displayed' = displayed
            /\ sidebar' = sidebar
            /\ start_pressed' = start_pressed
            /\ IsPrefix(calls, calls')]_vars

\* The response of a second turn has returned and its records are not yet stored.
C6_Witness ==
    /\ pc = "append" /\ response \in Responses
    /\ Len(Transcript(session_state)) = 2
    /\ displayed = Transcript(session_state)

\* C7: the stored model is the one the latest successful Start press returned;
\* once stored it is never removed, only a Start press whose start_llama3
\* returns assigns it, and stream_output is called with it.
C7_ModelKeptUntilNextStart ==
    /\ [](/\ HasModel <=> last_start # <<>>
          /\ HasModel => session_state["model"] = last_start[1]
          /\ \A i \in CallsOf("stream_output") : calls[i].model = last_start[1])
    /\ [][HasModel => HasModel']_vars
    /\ [][(HasModel' /\ (~HasModel \/ session_state'["model"] # session_state["model"]))
            => (pc = "idle" /\ start_pressed' /\ prompt' = None
                /\ raised' \notin {"hf_streamlit_download", "start_llama3"})]_vars

\* A turn under RAG was served by a model started with a non-default encoding,
\* after an earlier turn.
C7_Witness ==
    /\ TurnCompleted /\ sidebar.rag
    /\ Len(Transcript(session_state)) = 4
    /\ ~start_pressed
    /\ session_state["model"].quantization_encoding = "q6_k"
    /\ calls[Len(calls)].model = session_state["model"]

\* The turn of the latest rerun has built its user message (line 171 or 178).
UserMessageBuilt == prompt # None /\ Len(messages) = Len(TurnHistory) + 2

\* C8: a turn retrieves exactly when "Activate RAG" is checked in its rerun:
\* then embed is called once with the typed text and query once after it, with
\* the slider's value (between 1 and 7) as n_results, both before stream_output,
\* and the user message sent is RAG_PROMPT filled with the typed text and the
\* retrieved data; unchecked, neither call is made and the user message is the
\* typed text.
C8_RagExactlyWhenChecked ==
    /\ \A i \in CallsOf("query") :
          /\ calls[i].n_results >= 1 /\ calls[i].n_results <= 7
          /\ calls[i].n_results = sidebar.n_result
    /\ (CallsOf("embed") # {} \/ CallsOf("query") # {}) => sidebar.rag
    /\ (UserMessageBuilt /\ sidebar.rag) =>
          /\ Len(calls) >= 2
          /\ calls[1].op = "embed" /\ calls[1].text = prompt /\ calls[1].ok
          /\ calls[2].op = "query" /\ calls[2].ok
          /\ CallsOf("embed") = {1} /\ CallsOf("query") = {2}
          /\ messages[Len(messages)] =
                [role |-> "user",
                 content |-> RAG_PROMPT.head \o prompt \o RAG_PROMPT.mid
                             \o DataStr(RetrievedData(calls[2].result))
                             \o RAG_PROMPT.tail]
    /\ (UserMessageBuilt /\ ~sidebar.rag) =>
          /\ CallsOf("embed") = {} /\ CallsOf("query") = {}
          /\ messages[Len(messages)] = [role |-> "user", content |-> prompt]

\* Under RAG with the slider at 7 the two nearest documents were retrieved and
\* the model has answered the augmented prompt.
C8_Witness ==
    /\ pc = "append" /\ sidebar.rag /\ sidebar.n_result = 7
    /\ Len(calls) = 3 /\ calls[3].op = "stream_output"
    /\ Len(RetrievedData(calls[2].result)) = 1
    /\ Len(calls[2].result.documents[1]) = 2
    /\ messages[Len(messages)].content # prompt

\* C9: the stored transcript has even length, its roles alternate user,
\* assistant from the first record on, no record has the role system, and each
\* record carries the avatar of its role.
C9_TranscriptAlternates ==
    LET T == Transcript(session_state)
    IN  /\ Len(T) % 2 = 0
        /\ \A i \in 1..Len(T) :
              /\ T[i].role = (IF i % 2 = 1 THEN "user" ELSE "assistant")
              /\ T[i].role # "system"
              /\ T[i].avatar = (IF T[i].role = "user" THEN USER_AVATAR
                                ELSE ASSISTANT_AVATAR)

\* Two turns are stored.
C9_Witness ==
    /\ Len(Transcript(session_state)) = 4
    /\ Transcript(session_state)[1].content # Transcript(session_state)[3].content

\* C10: the list handed to messages_to_llama3_prompt is one system message with
\* the sidebar's system prompt, the stored transcript in order reduced to role
\* and content, and one user message for the turn; the prompt is the
\* begin-of-text marker, a header and a content-with-end-of-turn piece per
\* message in that order, and an open assistant header: 2n+2 blocks after n
\* completed turns.
C10_PromptOfSystemHistoryUser ==
    prompt_string # <<>> =>
        LET H == TurnHistory
            n == Len(H) \div 2
            k == Len(messages)
        IN  /\ k = 2 * n + 2
            /\ messages[1] = [role |-> "system", content |-> sidebar.system_prompt]
            /\ \A i \in 1..Len(H) :
                  messages[i + 1] = [role |-> H[i].role, content |-> H[i].content]
            /\ messages[k].role = "user"
            /\ \A i \in 1..k : DOMAIN messages[i] = {"role", "content"}
            /\ Len(prompt_string) = 2 * k + 2
            /\ prompt_string[1] = "<|begin_of_text|>"
            /\ \A i \in 1..k :
                  /\ prompt_string[2 * i] =
                        "<|start_header_id|>" \o messages[i].role \o "<|end_header_id|>\n\n"
                  /\ prompt_string[2 * i + 1] = messages[i].content \o "<|eot_id|>\n"
            /\ prompt_string[2 * k + 2] = "<|start_header_id|>assistant<|end_header_id|>"

\* The prompt of a second turn, with a system prompt the user typed.
C10_Witness ==
    /\ pc = "append" /\ Len(messages) = 4 /\ Len(prompt_string) = 10
    /\ sidebar.system_prompt = "Answer in French."

====
